---- MODULE Spec2Model ----
(***************************************************************************)
(* A model of the BTP request/response multiplexer of                      *)
(* crates/interledger-btp/src/service.rs: BtpOutgoingService with its      *)
(* connections map, its table of pending outgoing requests, the buffer of  *)
(* incoming Prepares, the task spawned per WebSocket connection and the    *)
(* task spawned by handle_incoming.                                        *)
(***************************************************************************)
EXTENDS Integers, Sequences, FiniteSets, TLC

\* ------------------------------------------------------------------ bounds
MaxSessions == 2     \* add_connection calls in a run
NumIds == 2          \* size of the range random::<u32>() is drawn from
MaxCalls == 2        \* send_request calls in a run
MaxInputs == 4       \* inputs of the environment in a run: connections added,
                     \* requests sent, futures dropped, messages and failures
                     \* of the WebSocket connections

Accounts == {"A", "B"}
SessionIds == 1..MaxSessions
RequestIds == 1..NumIds
CallIds == 1..MaxCalls

\* --------------------------------------------------------------- ILP packets
\* The three packet kinds of interledger_packet::Packet.
PreparePacket == [type |-> "Prepare"]
FulfillPacket == [type |-> "Fulfill"]
\* A Reject as the peer builds it (scenario: code F99, data [1,2,3]).
PeerReject ==
    [type |-> "Reject", code |-> "F99", message |-> <<>>,
     triggered_by |-> <<>>, data |-> <<1, 2, 3>>]
\* RejectBuilder { code: T00_INTERNAL_ERROR, message: &[], triggered_by: &[], data: &[] }
InternalErrorReject ==
    [type |-> "Reject", code |-> "T00", message |-> <<>>,
     triggered_by |-> <<>>, data |-> <<>>]

\* The type octet an ILP packet is serialised under (12, 13, 14).
PacketTypeOctet(type) ==
    CASE type = "Prepare" -> 12
      [] type = "Fulfill" -> 13
      [] OTHER -> 14

\* BytesMut::from(packet): the serialised packet, its type octet first.
IlpBytes(packet) ==
    [octet |-> PacketTypeOctet(packet.type), body |-> packet]

\* A decoder that takes any bytes for the packet they were cut from.
PacketTryFromLenient(bytes) == [ok |-> TRUE, packet |-> bytes.body]

\* Packet::try_from(bytes): Ok(packet), or an error when the type octet or
\* the body is not one of an ILP packet.
PacketTryFrom(bytes) ==
    IF /\ bytes.octet \in {12, 13, 14}
       /\ bytes.octet = PacketTypeOctet(bytes.body.type)
    THEN [ok |-> TRUE, packet |-> bytes.body]
    ELSE [ok |-> FALSE, packet |-> bytes.body]

\* ------------------------------------------------------------- frame codec
\* A WebSocket message: ws is "Binary" or "Text"; a binary message holds a BTP
\* packet of kind btp with a request id and a list of protocol data entries.
ilp_packet_to_ws_message(request_id, packet) ==
    [ws |-> "Binary",
     btp |-> IF packet.type = "Prepare" THEN "Message" ELSE "Response",
     request_id |-> request_id,
     protocol_data |-> << [protocol_name |-> "ilp", data |-> IlpBytes(packet)] >>]

\* The first protocol data entry named "ilp", as a sequence of length 0 or 1.
FindIlp(protocol_data) ==
    SelectSeq(protocol_data, LAMBDA proto : proto.protocol_name = "ilp")

\* parse_ilp_packet: Ok((request_id, packet)) or Err(()).
ParseError == [ok |-> FALSE, request_id |-> 0, packet |-> [type |-> "none"]]
parse_ilp_packet(message) ==
    IF message.ws # "Binary" THEN ParseError
    ELSE IF message.btp \notin {"Message", "Response"} THEN ParseError
    ELSE IF FindIlp(message.protocol_data) = <<>> THEN ParseError
    ELSE LET decoded == PacketTryFrom(Head(FindIlp(message.protocol_data)).data)
         IN  IF ~decoded.ok THEN ParseError
             ELSE [ok |-> TRUE, request_id |-> message.request_id,
                   packet |-> decoded.packet]

\* What a peer may put on a connection: well-formed Prepares, Fulfills and
\* Rejects under every request id, and frames that do not decode (a BTP Error,
\* a Response without an "ilp" entry such as the auth response, a text frame).
BtpErrorFrame ==
    [ws |-> "Binary", btp |-> "Error", request_id |-> 1, protocol_data |-> <<>>]
AuthResponseFrame ==
    [ws |-> "Binary", btp |-> "Response", request_id |-> 1,
     protocol_data |-> << [protocol_name |-> "auth", data |-> <<>>] >>]
TextFrame ==
    [ws |-> "Text", btp |-> "none", request_id |-> 1, protocol_data |-> <<>>]
\* Bytes BtpPacket::from_bytes rejects, and a BTP Message whose "ilp" entry
\* does not hold an ILP packet.
MalformedFrame ==
    [ws |-> "Binary", btp |-> "Invalid", request_id |-> 1, protocol_data |-> <<>>]
BadIlpFrame ==
    [ws |-> "Binary", btp |-> "Response", request_id |-> 1,
     protocol_data |-> << [protocol_name |-> "ilp",
                           data |-> [octet |-> 99, body |-> FulfillPacket]] >>]
UndecodableFrames ==
    {BtpErrorFrame, AuthResponseFrame, TextFrame, MalformedFrame, BadIlpFrame}
PeerMessages ==
    {ilp_packet_to_ws_message(id, packet) :
        id \in RequestIds, packet \in {PreparePacket, FulfillPacket, PeerReject}}
    \cup UndecodableFrames

\* A Reject as the incoming handler builds it.
HandlerReject ==
    [type |-> "Reject", code |-> "F02", message |-> <<>>,
     triggered_by |-> <<>>, data |-> <<>>]

\* ------------------------------------------------------------------- state
VARIABLES
    connections,       \* self.connections: account id -> the session whose sender is stored
    pending_outgoing,  \* self.pending_outgoing: request id -> the call whose oneshot sender is stored
    pending_incoming,  \* self.pending_incoming: "Some" while the receiver is still in the Option
    buffer,            \* the messages queued in the incoming_sender/incoming_receiver channel
    dispatcher,        \* the task spawned by handle_incoming
    current,           \* the item whose handler call is in flight
    sessAccount,       \* per session: the account add_connection was called with
    sessState,         \* per session: the state of the spawned handle_connection task
    insertPending,     \* per session: add_connection has spawned but not yet stored tx
    rxOpen,            \* per session: the receiver rx of the outgoing channel still exists
    outq,              \* per session: the messages pushed onto tx and not yet forwarded
    wire,              \* per session: the messages the forwarder wrote to the WebSocket sink
    calls,             \* per send_request call: its progress and the value of its future
    nInputs,           \* inputs of the environment so far
    arrived,           \* history: every item buffered, in order
    handled,           \* history: every item handed to the handler, in order
    dispatchLog,       \* history: every handler call that resolved: its item and
                       \* outcome, the session registered for the account (0: none)
                       \* and whether its channel was open, the session the response
                       \* was pushed to (0: none), and whether add_connection had
                       \* stored the session the item arrived on
    insertOrder,       \* history: the sessions in the order add_connection stored them
    unmatched,         \* history: the replies dropped with warn!, by request id and by
                       \* whether a reply carrying the id had resolved a call before
    next_outgoing,     \* the requests self.next_outgoing.send_request was called with, in order
    bindPanics         \* the calls of handle_incoming that panicked in expect()

vars ==
    <<connections, pending_outgoing, pending_incoming, buffer, dispatcher, current,
      sessAccount, sessState, insertPending, rxOpen, outq, wire, calls, nInputs,
      arrived, handled, dispatchLog, insertOrder, unmatched, next_outgoing,
      bindPanics>>

sessVars == <<sessAccount, sessState, insertPending, rxOpen, outq, wire>>
inboundVars == <<pending_incoming, buffer, dispatcher, current>>
historyVars == <<arrived, handled, dispatchLog, insertOrder, unmatched>>
envVars == <<next_outgoing, bindPanics>>

NoResult == [ok |-> FALSE, packet |-> [type |-> "none"]]
\* upstream is the number of the call of next_outgoing whose future the call
\* returned (0: none), reply_sess the session the reply that resolved it
\* arrived on (0: none).
NoCall == [st |-> "idle", to |-> "none", sess |-> 0, request_id |-> 0,
           result |-> NoResult, reply_id |-> 0, upstream |-> 0, reply_sess |-> 0]
\* An item of the buffer is (account, request_id, prepare); sess, seq and pre
\* are history: the session it arrived on, its arrival number and whether it
\* arrived before handle_incoming.
NoItem == [from |-> "none", request_id |-> 0, prepare |-> PreparePacket,
           sess |-> 0, seq |-> 0, pre |-> FALSE]

\* BtpOutgoingService::new
Init ==
    /\ connections = << >>
    /\ pending_outgoing = << >>
    /\ pending_incoming = "Some"
    /\ buffer = << >>
    /\ dispatcher = "unbound"
    /\ current = NoItem
    /\ sessAccount = [s \in SessionIds |-> "none"]
    /\ sessState = [s \in SessionIds |-> "unused"]
    /\ insertPending = [s \in SessionIds |-> FALSE]
    /\ rxOpen = [s \in SessionIds |-> FALSE]
    /\ outq = [s \in SessionIds |-> << >>]
    /\ wire = [s \in SessionIds |-> << >>]
    /\ calls = [c \in CallIds |-> NoCall]
    /\ nInputs = 0
    /\ arrived = << >>
    /\ handled = << >>
    /\ dispatchLog = << >>
    /\ insertOrder = << >>
    /\ unmatched = {}
    /\ next_outgoing = << >>
    /\ bindPanics = 0

\* ----------------------------------------------------------------- helpers
\* HashMap::insert and HashMap::remove on a map held as a function.
MapInsert(map, key, value) ==
    [k \in DOMAIN map \cup {key} |-> IF k = key THEN value ELSE map[k]]
MapRemove(map, key) ==
    [k \in DOMAIN map \ {key} |-> map[k]]

\* self.connections.read() is held by send_request from the lookup until the
\* reply slot is stored; a writer waits for it.
\* An input of the environment is counted against the bound of the run.
Input == nInputs < MaxInputs /\ nInputs' = nInputs + 1

ReadLocked == \E c \in CallIds : calls[c].st = "pushed"

\* TxAlive with a clone of tx kept by the connection's own task.
TxAliveLeaked(s) == TRUE

\* A sender of the session's outgoing channel still exists: the tx local to
\* add_connection before it is stored, and the one stored in the map.
TxAlive(s) ==
    \/ insertPending[s]
    \/ \E a \in DOMAIN connections : connections[a] = s

\* The incoming_receiver still exists: it sits in pending_incoming or is owned
\* by the running task of handle_incoming.
ReceiverAlive ==
    pending_incoming = "Some" \/ dispatcher \in {"idle", "handling"}

\* ---------------------------------------------------------- add_connection
\* add_connection up to spawn(handle_connection): the channel, the reader and
\* the forwarder exist and the task may run, but tx is not stored yet.
AddConnection(account) ==
    \E s \in SessionIds :
        /\ sessState[s] = "unused"
        /\ \A r \in SessionIds : r < s => sessState[r] # "unused"
        /\ sessAccount' = [sessAccount EXCEPT ![s] = account]
        /\ sessState' = [sessState EXCEPT ![s] = "running"]
        /\ insertPending' = [insertPending EXCEPT ![s] = TRUE]
        /\ rxOpen' = [rxOpen EXCEPT ![s] = TRUE]
        /\ Input
        /\ UNCHANGED <<envVars, connections, pending_outgoing, inboundVars, outq, wire,
                       calls, historyVars>>

\* The map after self.connections.write().insert(account_id, tx).
StoreSender(map, account_id, s) == MapInsert(map, account_id, s)

\* The last statement of add_connection; the replaced sender, if any, is dropped.
AddConnectionInsert(s) ==
    /\ insertPending[s]
    /\ ~ReadLocked
    /\ connections' = StoreSender(connections, sessAccount[s], s)
    /\ insertPending' = [insertPending EXCEPT ![s] = FALSE]
    /\ insertOrder' = Append(insertOrder, s)
    /\ UNCHANGED <<envVars, pending_outgoing, inboundVars, sessAccount, sessState, rxOpen,
                   outq, wire, calls, nInputs, arrived, handled, dispatchLog,
                   unmatched>>

\* ------------------------------------------------- the task of a connection
\* forward_to_connection: a poll of send_all moves the queued messages to the
\* sink, in order.
ForwardStep(s) ==
    /\ sessState[s] = "running"
    /\ outq[s] # << >>
    /\ wire' = [wire EXCEPT ![s] = @ \o outq[s]]
    /\ outq' = [outq EXCEPT ![s] = << >>]
    /\ UNCHANGED <<envVars, connections, pending_outgoing, inboundVars, sessAccount,
                   sessState, insertPending, rxOpen, calls, nInputs, historyVars>>

\* rx has ended: every sender is dropped and the queue is drained.
RxEnded(s) == outq[s] = << >> /\ ~TxAlive(s)

\* send_all completes because rx ended; its closure drops rx and the valve.
ForwarderClosed(s) ==
    /\ sessState[s] = "running"
    /\ RxEnded(s)
    /\ sessState' = [sessState EXCEPT ![s] = "forwarder_ended"]
    /\ rxOpen' = [rxOpen EXCEPT ![s] = FALSE]
    /\ UNCHANGED <<envVars, connections, pending_outgoing, inboundVars, sessAccount,
                   insertPending, outq, wire, calls, nInputs, historyVars>>

\* send_all fails on an I/O error of the sink.
SinkError(s) ==
    /\ sessState[s] = "running"
    /\ Input
    /\ sessState' = [sessState EXCEPT ![s] = "forwarder_ended"]
    /\ rxOpen' = [rxOpen EXCEPT ![s] = FALSE]
    /\ UNCHANGED <<envVars, connections, pending_outgoing, inboundVars, sessAccount,
                   insertPending, outq, wire, calls, historyVars>>

\* The inbound stream ends or errors (peer close, I/O error).
StreamEnd(s) ==
    /\ sessState[s] = "running"
    /\ Input
    /\ sessState' = [sessState EXCEPT ![s] = "reader_ended"]
    /\ UNCHANGED <<envVars, connections, pending_outgoing, inboundVars, sessAccount,
                   insertPending, rxOpen, outq, wire, calls, historyVars>>

\* The map after the closure of handle_connection ran connections.remove(&account_id).
RemoveConnection(map, account_id, s) == MapRemove(map, account_id)

\* handle_incoming.select(forward_to_connection) resolves as soon as either
\* of the two futures has; and a combinator that waits for the reader alone.
SelectResolvedReaderOnly(s) == sessState[s] = "reader_ended"
SelectResolved(s) == sessState[s] \in {"reader_ended", "forwarder_ended"}

\* select resolved: the closure of then() removes the entry of the account
\* under connections.write() and releases the lock. When the forwarder ended
\* first, rx was dropped in the forwarder's own closure and the task is over.
\* When the reader ended first, the unfinished forwarder, which owns rx, is
\* the argument of the closure and is dropped only after the closure's body:
\* until then the channel is open although the entry is gone.
SessionRemove(s) ==
    /\ SelectResolved(s)
    /\ ~ReadLocked
    /\ connections' = RemoveConnection(connections, sessAccount[s], s)
    /\ sessState' = [sessState EXCEPT ![s] =
            IF sessState[s] = "reader_ended" THEN "removed" ELSE "done"]
    /\ rxOpen' = IF sessState[s] = "reader_ended" THEN rxOpen
                 ELSE [rxOpen EXCEPT ![s] = FALSE]
    /\ UNCHANGED <<envVars, pending_outgoing, inboundVars, sessAccount, insertPending,
                   outq, wire, calls, nInputs, historyVars>>

\* The closure has returned: its argument, the unfinished forwarder with rx
\* and what rx still holds, is dropped and the task ends.
SessionDrop(s) ==
    /\ sessState[s] = "removed"
    /\ sessState' = [sessState EXCEPT ![s] = "done"]
    /\ rxOpen' = [rxOpen EXCEPT ![s] = FALSE]
    /\ UNCHANGED <<envVars, connections, pending_outgoing, inboundVars, sessAccount,
                   insertPending, outq, wire, calls, nInputs, historyVars>>

\* channel.send(Ok(fulfill)) or channel.send(Err(reject)) on the oneshot sender
\* stored for a call: it fails when the receiver was dropped, and otherwise
\* the call's future resolves with the value.
OneshotSend(call, request_id, packet) ==
    IF call.st = "waiting"
    THEN [ok |-> TRUE,
          call |-> [call EXCEPT !.st = "resolved",
                                !.result = [ok |-> packet.type = "Fulfill",
                                            packet |-> packet],
                                !.reply_id = request_id]]
    ELSE [ok |-> FALSE, call |-> call]

\* (*pending_requests.lock()).remove(&request_id), and a lookup that leaves
\* the slot in the table.
TakePendingKeep(table, request_id) == table
TakePending(table, request_id) == MapRemove(table, request_id)

\* pending_requests, the table the reader of a session looks replies up in: a
\* clone of the Arc of self.pending_outgoing, the one table of the service;
\* and a table of the requests sent over the session only.
PendingRequestsOfSession(s) ==
    [id \in {k \in DOMAIN pending_outgoing : calls[pending_outgoing[k]].sess = s}
        |-> pending_outgoing[id]]
PendingRequests(s) == pending_outgoing

\* One message of the inbound stream goes through the for_each closure.
ReaderReceive(s, message) ==
    /\ sessState[s] = "running"
    /\ Input
    /\ LET parsed == parse_ilp_packet(message) IN
       IF ~parsed.ok
       THEN UNCHANGED <<envVars, connections, pending_outgoing, inboundVars, sessVars,
                        calls, historyVars>>
       ELSE LET request_id == parsed.request_id
                packet == parsed.packet
            IN
            IF packet.type = "Prepare"
            THEN IF ReceiverAlive
                 THEN LET item == [from |-> sessAccount[s], request_id |-> request_id,
                                   prepare |-> packet, sess |-> s,
                                   seq |-> Len(arrived) + 1,
                                   pre |-> pending_incoming = "Some"]
                      IN /\ buffer' = Append(buffer, item)
                         /\ arrived' = Append(arrived, item)
                         /\ UNCHANGED <<envVars, connections, pending_outgoing, pending_incoming,
                                        dispatcher, current, sessVars, calls, handled,
                                        dispatchLog, insertOrder, unmatched>>
                 ELSE /\ sessState' = [sessState EXCEPT ![s] = "reader_ended"]
                      /\ UNCHANGED <<envVars, connections, pending_outgoing, inboundVars,
                                     sessAccount, insertPending, rxOpen, outq, wire,
                                     calls, historyVars>>
            ELSE IF request_id \in DOMAIN PendingRequests(s)
                 THEN LET c == PendingRequests(s)[request_id]
                          sent == OneshotSend(calls[c], request_id, packet)
                      IN /\ pending_outgoing' = TakePending(pending_outgoing, request_id)
                         /\ calls' = [calls EXCEPT ![c] =
                                IF sent.ok THEN [sent.call EXCEPT !.reply_sess = s]
                                ELSE sent.call]
                         /\ sessState' = IF sent.ok THEN sessState
                                         ELSE [sessState EXCEPT ![s] = "reader_ended"]
                         /\ UNCHANGED <<envVars, connections, inboundVars, sessAccount,
                                        insertPending, rxOpen, outq, wire, historyVars>>
                 ELSE /\ unmatched' = unmatched \cup
                            {[request_id |-> request_id,
                              stale |-> \E c \in CallIds : calls[c].reply_id = request_id]}
                      /\ UNCHANGED <<envVars, connections, pending_outgoing, inboundVars,
                                     sessVars, calls, arrived, handled, dispatchLog,
                                     insertOrder>>

\* ------------------------------------------------------------ send_request
\* The OutgoingRequest of a call: its destination account and its Prepare.
OutgoingRequest(account) == [to |-> account, prepare |-> PreparePacket]

\* self.next_outgoing.send_request(request), and the same called twice.
DelegateTwice(log, request) == Append(Append(log, request), request)
Delegate(log, request) == Append(log, request)

\* The Err arm of the match on unbounded_send: the call returns err(reject)
\* with the internal-error Reject; and the same arm handing a future that
\* never resolves.
SendFailedSilently(call, account, s, request_id) ==
    [call EXCEPT !.st = "waiting", !.to = account, !.sess = s,
                 !.request_id = request_id]
SendFailed(call, account, s, request_id) ==
    [call EXCEPT !.st = "resolved", !.to = account, !.sess = s,
                 !.request_id = request_id,
                 !.result = [ok |-> FALSE, packet |-> InternalErrorReject]]

\* send_request up to the push: the lookup under connections.read(), the
\* delegation to next_outgoing when the account has no entry, and otherwise
\* the random request id and unbounded_send of the Prepare.
SendRequest(c, account, request_id) ==
    /\ calls[c].st = "idle"
    /\ \A d \in CallIds : d < c => calls[d].st # "idle"
    /\ IF account \notin DOMAIN connections
       THEN /\ next_outgoing' = Delegate(next_outgoing, OutgoingRequest(account))
            /\ calls' = [calls EXCEPT ![c] =
                   [@ EXCEPT !.st = "upstream", !.to = account,
                             !.upstream = Len(next_outgoing')]]
            /\ UNCHANGED outq
       ELSE LET s == connections[account] IN
            IF rxOpen[s]
            THEN /\ outq' = [outq EXCEPT ![s] =
                        Append(@, ilp_packet_to_ws_message(request_id, PreparePacket))]
                 /\ calls' = [calls EXCEPT ![c] =
                        [@ EXCEPT !.st = "pushed", !.to = account, !.sess = s,
                                  !.request_id = request_id]]
                 /\ UNCHANGED next_outgoing
            ELSE /\ calls' = [calls EXCEPT ![c] = SendFailed(@, account, s, request_id)]
                 /\ UNCHANGED <<outq, next_outgoing>>
    /\ Input
    /\ UNCHANGED <<bindPanics, connections, pending_outgoing, inboundVars, sessAccount, sessState,
                   insertPending, rxOpen, wire, historyVars>>

\* The key under which send_request stores the reply slot of a Prepare it
\* sent under request_id, and a key drawn anew for the slot.
SlotKeyRedrawn(request_id) == (request_id % NumIds) + 1
SlotKey(request_id) == request_id

\* The oneshot receiver of a call whose sender was dropped without a value:
\* map_err turns Canceled into the internal-error Reject.
Canceled(call) ==
    IF call.st = "waiting"
    THEN [call EXCEPT !.st = "resolved",
                      !.result = [ok |-> FALSE, packet |-> InternalErrorReject]]
    ELSE call

\* The Ok arm of send_request: the reply slot is stored; a slot already stored
\* under the id is replaced and its sender dropped.
SendRequestInsert(c) ==
    /\ calls[c].st = "pushed"
    /\ LET key == SlotKey(calls[c].request_id) IN
       /\ pending_outgoing' = MapInsert(pending_outgoing, key, c)
       /\ calls' = [d \in CallIds |->
            IF d = c THEN [calls[c] EXCEPT !.st = "waiting"]
            ELSE IF key \in DOMAIN pending_outgoing /\ pending_outgoing[key] = d
                 THEN Canceled(calls[d])
                 ELSE calls[d]]
    /\ UNCHANGED <<envVars, connections, inboundVars, sessVars, nInputs, historyVars>>

\* The caller drops the future send_request returned before it resolved.
DropFuture(c) ==
    /\ calls[c].st = "waiting"
    /\ calls' = [calls EXCEPT ![c].st = "cancelled"]
    /\ Input
    /\ UNCHANGED <<envVars, connections, pending_outgoing, inboundVars, sessVars, historyVars>>

\* --------------------------------------------------------- handle_incoming
\* Option::take() leaves None in pending_incoming; and a take that leaves the
\* receiver where it is.
TakeLeaves(option) == option
Take(option) == "None"

\* handle_incoming takes the receiver out of pending_incoming and spawns the
\* task that runs for_each over it. When the receiver was taken before,
\* expect() panics in the caller: the service given by value (a clone) is
\* dropped, nothing was spawned and the lock of pending_incoming is released.
HandleIncoming ==
    IF pending_incoming = "Some"
    THEN /\ pending_incoming' = Take(pending_incoming)
         /\ dispatcher' = "idle"
         /\ UNCHANGED <<envVars, connections, pending_outgoing, buffer, current,
                        sessVars, calls, nInputs, historyVars>>
    ELSE /\ Input
         /\ bindPanics' = bindPanics + 1
         /\ UNCHANGED <<next_outgoing, connections, pending_outgoing, inboundVars,
                        sessVars, calls, historyVars>>

\* for_each polls the receiver for the next item only when the future of the
\* previous item has completed; and a loop that takes the next item while a
\* handler call is in flight.
DispatcherReadyConcurrent == dispatcher \in {"idle", "handling"}
DispatcherReady == dispatcher = "idle"

\* for_each takes the next item and calls incoming_handler.handle_request.
DispatchTake ==
    /\ DispatcherReady
    /\ buffer # << >>
    /\ current' = Head(buffer)
    /\ buffer' = Tail(buffer)
    /\ dispatcher' = "handling"
    /\ handled' = Append(handled, Head(buffer))
    /\ UNCHANGED <<envVars, connections, pending_outgoing, pending_incoming, sessVars, calls,
                   nInputs, arrived, dispatchLog, insertOrder, unmatched>>

\* The packet the closure of then() builds from the handler's result, and the
\* same with the arms of the match swapped.
ResponsePacketSwapped(outcome) ==
    IF outcome = "Fulfill" THEN HandlerReject ELSE FulfillPacket
ResponsePacket(outcome) ==
    IF outcome = "Fulfill" THEN FulfillPacket ELSE HandlerReject

\* unbounded_send of the response succeeds: the account has an entry and the
\* receiver of its channel still exists.
ResponseSent(found, s) == found /\ rxOpen[s]

\* The handler's future resolves and the closure of then() sends the response
\* over the sender stored for the account: expect() panics when there is none,
\* and a failed unbounded_send ends for_each with an error. Either way the
\* task ends and the receiver is dropped with what it still holds.
HandlerResolve(outcome) ==
    /\ dispatcher = "handling"
    /\ LET message == ilp_packet_to_ws_message(current.request_id, ResponsePacket(outcome))
           account_id == current.from
           found == account_id \in DOMAIN connections
           s == IF found THEN connections[account_id] ELSE 0
           sent == ResponseSent(found, s)
       IN /\ dispatcher' = IF ~found THEN "panicked"
                           ELSE IF sent THEN "idle" ELSE "failed"
          /\ outq' = IF sent THEN [outq EXCEPT ![s] = Append(@, message)] ELSE outq
          /\ buffer' = IF sent THEN buffer ELSE << >>
          /\ dispatchLog' = Append(dispatchLog,
                [item |-> current, outcome |-> outcome, registered |-> s,
                 open |-> found /\ rxOpen[s], to |-> IF sent THEN s ELSE 0,
                 stored |-> \E i \in DOMAIN insertOrder :
                                insertOrder[i] = current.sess])
    /\ current' = NoItem
    /\ UNCHANGED <<envVars, connections, pending_outgoing, pending_incoming, sessAccount,
                   sessState, insertPending, rxOpen, wire, calls, nInputs, arrived,
                   handled, insertOrder, unmatched>>

\* ------------------------------------------------------------ specification
Next ==
    \/ \E account \in Accounts : AddConnection(account)
    \/ \E s \in SessionIds : AddConnectionInsert(s)
    \/ \E s \in SessionIds : ForwardStep(s)
    \/ \E s \in SessionIds : ForwarderClosed(s)
    \/ \E s \in SessionIds : SinkError(s)
    \/ \E s \in SessionIds : StreamEnd(s)
    \/ \E s \in SessionIds : SessionRemove(s)
    \/ \E s \in SessionIds : SessionDrop(s)
    \/ \E s \in SessionIds, message \in PeerMessages : ReaderReceive(s, message)
    \/ \E c \in CallIds, account \in Accounts, request_id \in RequestIds :
            SendRequest(c, account, request_id)
    \/ \E c \in CallIds : SendRequestInsert(c)
    \/ \E c \in CallIds : DropFuture(c)
    \/ HandleIncoming
    \/ DispatchTake
    \/ \E outcome \in {"Fulfill", "Reject"} : HandlerResolve(outcome)

Spec == Init /\ [][Next]_vars

\* The spawned tasks are polled when they can make progress, add_connection and
\* send_request run to their end, and the handler's future resolves; the
\* peers, the callers and the failures of the connections are not obliged to act.
Fairness ==
    /\ \A s \in SessionIds :
            /\ WF_vars(AddConnectionInsert(s))
            /\ WF_vars(ForwardStep(s))
            /\ WF_vars(ForwarderClosed(s))
            /\ WF_vars(SessionRemove(s))
            /\ WF_vars(SessionDrop(s))
    /\ \A c \in CallIds : WF_vars(SendRequestInsert(c))
    /\ WF_vars(DispatchTake)
    /\ WF_vars(\E outcome \in {"Fulfill", "Reject"} : HandlerResolve(outcome))

FairSpec == Spec /\ Fairness

\* ------------------------------------------------------------------ claims
\* Every message ever pushed onto the outgoing channel of a session, in order.
AllPushed(s) == wire[s] \o outq[s]

\* The position of a session in insertOrder, 0 when it was never stored.
InsertedAt(s) ==
    IF \E i \in DOMAIN insertOrder : insertOrder[i] = s
    THEN CHOOSE i \in DOMAIN insertOrder : insertOrder[i] = s
    ELSE 0

\* The future of a call resolved with the internal-error Reject.
ResolvedInternalError(c) ==
    /\ calls[c].st = "resolved"
    /\ calls[c].result = [ok |-> FALSE, packet |-> InternalErrorReject]

\* The call has a slot in the table of pending requests.
HasSlot(c) == \E id \in DOMAIN pending_outgoing : pending_outgoing[id] = c

\* A step of a spawned task, or the rest of an add_connection or send_request
\* under way: what the service does without a further input.
TaskStep ==
    \/ \E s \in SessionIds :
            \/ AddConnectionInsert(s)
            \/ ForwardStep(s)
            \/ ForwarderClosed(s)
            \/ SessionRemove(s)
            \/ SessionDrop(s)
    \/ \E c \in CallIds : SendRequestInsert(c)
    \/ DispatchTake
    \/ \E outcome \in {"Fulfill", "Reject"} : HandlerResolve(outcome)

\* No task can take a step: whatever the service does eventually, it has done.
Quiescent == ~ENABLED TaskStep

\* The Prepare of a call was written to the WebSocket of its session.
OnWire(c) ==
    \E i \in DOMAIN wire[calls[c].sess] :
        wire[calls[c].sess][i] =
            ilp_packet_to_ws_message(calls[c].request_id, PreparePacket)

\* C1: when the session a pending send_request was routed over is torn down,
\* the request's slot leaves the table and the caller's future eventually
\* resolves with the T00 Reject: once the tasks have run as far as they can,
\* no future whose Prepare went out over a session that has terminated is
\* still unresolved.
C1_TeardownResolvesPending ==
    \A c \in CallIds :
        (/\ calls[c].st = "waiting"
         /\ OnWire(c)
         /\ sessState[calls[c].sess] = "done"
         /\ Quiescent)
            => (ResolvedInternalError(c) /\ ~HasSlot(c))

\* C2: no entry of the Sessions Map points to a session whose task has
\* terminated, and a send_request made when the account has no live session
\* is delegated to the upstream service.
C2_TerminatedSessionUnregistered ==
    [][/\ \A s \in SessionIds : sessState'[s] = "done" =>
            \A a \in DOMAIN connections' : connections'[a] # s
       /\ \A c \in CallIds :
            (/\ calls[c].st = "idle" /\ calls'[c].st # "idle"
             /\ \A s \in SessionIds :
                    sessAccount[s] = calls'[c].to => sessState[s] \in {"unused", "done"})
            => calls'[c].st = "upstream"]_vars

\* C3: a session that add_connection had stored and that terminates removes
\* the entry of its account only when the entry points to that session; an
\* entry that points to another session stays.
C3_RemoveOnlyOwnEntry ==
    [][\A s \in SessionIds :
          (/\ InsertedAt(s) # 0
           /\ sessState[s] \in {"reader_ended", "forwarder_ended"}
           /\ sessState'[s] \in {"removed", "done"}) =>
              \A a \in DOMAIN connections :
                  connections[a] # s =>
                      (a \in DOMAIN connections' /\ connections'[a] = connections[a])]_vars

\* C4: once add_connection has stored a second session for an account, the
\* session stored before it is shut down: its task, and with it its forwarder
\* and its reader, eventually ends. Checked under FairSpec.
C4_ReplacedSessionShutsDown ==
    \A s1 \in SessionIds : \A s2 \in SessionIds :
        (/\ InsertedAt(s1) # 0
         /\ InsertedAt(s1) < InsertedAt(s2)
         /\ sessAccount[s1] = sessAccount[s2])
            ~> (sessState[s1] = "done")

\* C4's case: two connections were added for one account and nothing else
\* happened; the first session ended because it was replaced.
C4_Witness ==
    /\ insertOrder = <<1, 2>>
    /\ sessAccount[1] = sessAccount[2]
    /\ nInputs = 2
    /\ sessState[1] = "done"

\* The responses pushed onto the channel of a session, decoded, in order.
\* send_request pushes BTP Messages only, so every BTP Response is a response
\* to an inbound Prepare.
Responses(s) ==
    LET frames == SelectSeq(AllPushed(s), LAMBDA m : m.btp = "Response")
    IN  [i \in 1..Len(frames) |->
            [request_id |-> parse_ilp_packet(frames[i]).request_id,
             type |-> parse_ilp_packet(frames[i]).packet.type]]

\* What the handler calls that resolved ask to be sent on a session, in order.
Expected(s) ==
    LET entries == SelectSeq(dispatchLog, LAMBDA e : e.to = s)
    IN  [i \in 1..Len(entries) |->
            [request_id |-> entries[i].item.request_id, type |-> entries[i].outcome]]

\* C5 as claimed: every inbound Prepare received after the binding, on a
\* session registered in the Sessions Map, whose handler call resolved has
\* its response on the session it arrived on.
C5_ResponseOnArrivalSession ==
    \A i \in DOMAIN dispatchLog :
        (~dispatchLog[i].item.pre /\ dispatchLog[i].stored)
            => dispatchLog[i].to = dispatchLog[i].item.sess

\* C5, amended: a handler call that resolves while the Sessions Map holds an
\* entry for the Prepare's account whose channel is open pushes exactly one
\* response, with the request id of the Prepare and the kind of the handler's
\* outcome, onto the session registered for that account at that moment;
\* without such an entry it pushes nothing.
C5_ResponseDelivery ==
    /\ \A i \in DOMAIN dispatchLog :
          LET e == dispatchLog[i] IN
          /\ e.to = IF e.registered # 0 /\ e.open THEN e.registered ELSE 0
          /\ e.to # 0 => sessAccount[e.to] = e.item.from
    /\ \A s \in SessionIds : Responses(s) = Expected(s)

\* C5's case: a Prepare received after the binding was answered.
C5_Witness ==
    \E i \in DOMAIN dispatchLog :
        /\ ~dispatchLog[i].item.pre
        /\ dispatchLog[i].to # 0
        /\ Len(Responses(dispatchLog[i].to)) > 0

\* The number of times an item was handed to the handler.
TimesHandled(item) == Cardinality({i \in DOMAIN handled : handled[i] = item})

\* C6: a Prepare buffered before the binding is never lost and never handed to
\* the handler twice: it waits in the buffer or was handed over exactly once,
\* and the handler sees the items in the order they were buffered (stated for
\* the Prepares of sessions registered in the Sessions Map).
C6_BufferedDeliveredOnce ==
    (\A i \in DOMAIN dispatchLog : dispatchLog[i].stored) =>
        /\ \A i \in DOMAIN arrived :
              arrived[i].pre =>
                  \/ TimesHandled(arrived[i]) = 1
                  \/ /\ TimesHandled(arrived[i]) = 0
                     /\ \E j \in DOMAIN buffer : buffer[j] = arrived[i]
        /\ \A i \in DOMAIN handled : handled[i] = arrived[i]

\* C7: when the handler resolves for a Prepare whose account had an entry in
\* the Sessions Map and no longer has one, nothing is sent and the dispatching
\* task keeps running.
C7_ResponseDroppedWithoutPanic ==
    [][(/\ dispatcher = "handling"
        /\ dispatcher' # "handling"
        /\ InsertedAt(current.sess) # 0
        /\ current.from \notin DOMAIN connections)
          => (dispatcher' = "idle" /\ outq' = outq)]_vars

\* C8: dropping the future leaves the submitted Prepare where it is, and the
\* reply that later arrives for its id is discarded without ending the session
\* it arrived on or touching the Sessions Map.
C8_CancellationSafe ==
    [][/\ \A c \in CallIds :
            (calls[c].st = "waiting" /\ calls'[c].st = "cancelled")
                => (outq' = outq /\ wire' = wire)
       /\ \A id \in DOMAIN pending_outgoing :
            (/\ calls[pending_outgoing[id]].st = "cancelled"
             /\ id \notin DOMAIN pending_outgoing')
                => (sessState' = sessState /\ connections' = connections)]_vars

\* C9: the slot of a call is stored under the request id of the Prepare pushed
\* for it, and a future resolved by a reply was resolved by a reply carrying
\* that id: Ok(F) for a Fulfill F, Err(R) for a Reject R.
C9_CorrelationBijection ==
    /\ \A id \in DOMAIN pending_outgoing :
          LET c == pending_outgoing[id] IN
          /\ calls[c].request_id = id
          /\ \E i \in DOMAIN AllPushed(calls[c].sess) :
                parse_ilp_packet(AllPushed(calls[c].sess)[i]) =
                    [ok |-> TRUE, request_id |-> id, packet |-> PreparePacket]
    /\ \A c \in CallIds :
          calls[c].reply_id # 0 =>
              /\ calls[c].st = "resolved"
              /\ calls[c].reply_id = calls[c].request_id
              /\ calls[c].result \in {[ok |-> TRUE, packet |-> FulfillPacket],
                                      [ok |-> FALSE, packet |-> PeerReject]}

\* C9's case: two requests are pending under different ids and the Fulfill
\* carrying the id of the second resolved the second with Ok(F).
C9_Witness ==
    /\ calls[1].st = "waiting"
    /\ calls[2].reply_id # 0
    /\ calls[2].request_id # calls[1].request_id
    /\ calls[2].result = [ok |-> TRUE, packet |-> FulfillPacket]

\* A message that decodes to a Fulfill or a Reject.
IsReply(message) ==
    /\ parse_ilp_packet(message).ok
    /\ parse_ilp_packet(message).packet.type \in {"Fulfill", "Reject"}

\* C10: a reply carrying a pending id removes the slot and resolves the future
\* of its call; a reply carrying an id that is not pending (a second reply, or
\* an id never allocated) changes neither the table, nor the Sessions Map, nor
\* a future, nor a session; and a resolved future keeps its value.
C10_ReplyResolvesOnce ==
    [][/\ \A c \in CallIds : calls[c].st = "resolved" => calls'[c] = calls[c]
       /\ \A s \in SessionIds : \A m \in PeerMessages :
            (IsReply(m) /\ ReaderReceive(s, m)) =>
                LET id == parse_ilp_packet(m).request_id IN
                IF id \in DOMAIN pending_outgoing
                THEN /\ id \notin DOMAIN pending_outgoing'
                     /\ calls[pending_outgoing[id]].st = "waiting" =>
                            /\ calls'[pending_outgoing[id]].st = "resolved"
                            /\ calls'[pending_outgoing[id]].result.packet =
                                    parse_ilp_packet(m).packet
                ELSE UNCHANGED <<connections, pending_outgoing, calls, sessState>>]_vars

\* C10's case: one connection, one request resolved by the first reply
\* carrying its id, and a second reply carrying the same id dropped.
C10_Witness ==
    /\ nInputs = 4
    /\ sessState = <<"running", "unused">>
    /\ calls[1].st = "resolved"
    /\ calls[1].reply_id = calls[1].request_id
    /\ calls[2].st = "idle"
    /\ unmatched = {[request_id |-> calls[1].request_id, stale |-> TRUE]}
    /\ pending_outgoing = << >>
    /\ arrived = << >>

\* C11: a send_request for an account without an entry in the Sessions Map
\* calls the upstream service exactly once, with the request it was given,
\* and returns the future of that call; the Sessions Map, the table of pending
\* requests and the outgoing channels stay as they are. The upstream service
\* is called by no other step, and the returned future stays the upstream's.
C11_UnknownAccountFallthrough ==
    [][/\ \A c \in CallIds :
            (/\ calls[c].st = "idle"
             /\ calls'[c].st # "idle"
             /\ calls'[c].to \notin DOMAIN connections)
                => /\ next_outgoing' =
                        Append(next_outgoing,
                               [to |-> calls'[c].to, prepare |-> PreparePacket])
                   /\ calls'[c].st = "upstream"
                   /\ calls'[c].upstream = Len(next_outgoing')
                   /\ UNCHANGED <<connections, pending_outgoing, outq>>
       /\ next_outgoing' # next_outgoing =>
            \E c \in CallIds :
                /\ calls[c].st = "idle"
                /\ calls'[c].st = "upstream"
                /\ calls'[c].to \notin DOMAIN connections
       /\ \A c \in CallIds : calls[c].st = "upstream" => calls'[c] = calls[c]]_vars

\* C11's case: a request to an account without a session went upstream while
\* the session of another account was registered and running.
C11_Witness ==
    /\ calls[1].st = "upstream"
    /\ next_outgoing = << [to |-> calls[1].to, prepare |-> PreparePacket] >>
    /\ calls[1].to \notin DOMAIN connections
    /\ \E a \in DOMAIN connections : sessState[connections[a]] = "running"

\* C12: a send_request that finds an entry in the Sessions Map whose channel is
\* closed returns a future resolved with the T00_INTERNAL_ERROR Reject with
\* empty message, triggered_by and data; the upstream service is not called
\* and the table of pending requests holds no slot of the call.
C12_ClosedQueueRejected ==
    [][\A c \in CallIds :
          (/\ calls[c].st = "idle"
           /\ calls'[c].st # "idle"
           /\ calls'[c].to \in DOMAIN connections
           /\ ~rxOpen[connections[calls'[c].to]])
              => /\ calls'[c].st = "resolved"
                 /\ calls'[c].result =
                        [ok |-> FALSE,
                         packet |-> [type |-> "Reject", code |-> "T00",
                                     message |-> << >>, triggered_by |-> << >>,
                                     data |-> << >>]]
                 /\ next_outgoing' = next_outgoing
                 /\ pending_outgoing' = pending_outgoing
                 /\ \A id \in DOMAIN pending_outgoing' : pending_outgoing'[id] # c
                 /\ outq' = outq]_vars

\* C12's case: the channel of the one session was closed, its entry was in the
\* map, and the request sent then was rejected.
C12_Witness ==
    /\ calls[1].st = "resolved"
    /\ calls[1].sess = 1
    /\ calls[1].reply_id = 0
    /\ calls[2].st = "idle"
    /\ insertOrder = <<1>>
    /\ next_outgoing = << >>
    /\ pending_outgoing = << >>

\* C13: the handler is bound at most once and for good. The call of
\* handle_incoming that starts the dispatching task is the one that takes the
\* receiver out of pending_incoming, the receiver never comes back, and a call
\* made after that panics and changes nothing: no second task, and the buffer,
\* the dispatching task and the handler call in flight are as they were.
C13_HandlerBoundOnce ==
    [][/\ pending_incoming = "None" => pending_incoming' = "None"
       /\ (dispatcher = "unbound" /\ dispatcher' # "unbound") =>
            (pending_incoming = "Some" /\ pending_incoming' = "None")
       /\ dispatcher # "unbound" =>
            (dispatcher' # "unbound" /\ pending_incoming = "None")
       /\ bindPanics' # bindPanics =>
            /\ pending_incoming = "None"
            /\ bindPanics' = bindPanics + 1
            /\ UNCHANGED <<connections, pending_outgoing, inboundVars, sessVars,
                           calls, historyVars, next_outgoing>>]_vars

\* C13's case: a second handle_incoming panicked and the task of the first
\* has answered a Prepare and is handling the next.
C13_Witness ==
    /\ bindPanics = 1
    /\ dispatcher = "handling"
    /\ \E i \in DOMAIN dispatchLog : dispatchLog[i].to # 0

\* C14: a failure of one session is fatal for that session only. The step in
\* which a session fails (its stream or its sink ends) and the step in which
\* its task ends leave the other sessions, the entries of the other accounts
\* and the dispatching task as they are (the entry of a session of the same
\* account is the subject of C3); and a handler response that cannot be pushed
\* because the channel of the registered session is closed leaves the
\* dispatching task running with its buffer, so that the Prepares of the other
\* sessions are still handled, and ends no session.
C14_SessionFailureConfined ==
    [][/\ \A s \in SessionIds :
            (sessState[s] # sessState'[s] /\ sessState'[s] # "running") =>
                /\ \A r \in SessionIds \ {s} :
                      sessState'[r] = sessState[r] /\ rxOpen'[r] = rxOpen[r]
                /\ \A a \in DOMAIN connections :
                      a # sessAccount[s] =>
                          (a \in DOMAIN connections' /\ connections'[a] = connections[a])
       /\ (/\ dispatcher = "handling"
           /\ dispatcher' # "handling"
           /\ current.from \in DOMAIN connections
           /\ ~rxOpen[connections[current.from]])
              => /\ dispatcher' = "idle"
                 /\ buffer' = buffer
                 /\ sessState' = sessState
                 /\ connections' = connections]_vars

\* C15: a message that does not decode (a text frame, malformed BTP, a BTP
\* packet without an "ilp" entry, an "ilp" entry that is not an ILP packet) and
\* a BTP Error frame are all rejected by parse_ilp_packet, and the reader that
\* receives one resolves no slot, buffers nothing, leaves the table of pending
\* requests and the Sessions Map as they are and goes on reading.
C15_UndecodableIgnored ==
    [][/\ \A m \in UndecodableFrames : ~parse_ilp_packet(m).ok
       /\ \A s \in SessionIds : \A m \in UndecodableFrames :
            ReaderReceive(s, m) =>
                /\ UNCHANGED <<connections, pending_outgoing, inboundVars, sessVars,
                               calls, historyVars, envVars>>
                /\ sessState'[s] = "running"]_vars

\* C15's case: a request is pending on the one session, and one of the three
\* inputs of the run left no trace: it was a message that does not decode.
C15_Witness ==
    /\ nInputs = 3
    /\ sessState = <<"running", "unused">>
    /\ calls[1].st = "waiting"
    /\ calls[2].st = "idle"
    /\ \E id \in DOMAIN pending_outgoing : pending_outgoing[id] = 1
    /\ arrived = << >>
    /\ unmatched = {}
    /\ bindPanics = 0

\* C16: the reply slot of a send_request is in the table before its Prepare is
\* on the session's channel, so whenever the inbound reader receives a reply
\* carrying the id of a request whose Prepare was written to the WebSocket
\* and whose future is unresolved, the reply is not dropped as unmatched: it
\* finds the slot and resolves the future.
C16_SlotBeforePush ==
    [][\A c \in CallIds : \A s \in SessionIds : \A m \in PeerMessages :
          (/\ calls[c].st \in {"pushed", "waiting"}
           /\ OnWire(c)
           /\ IsReply(m)
           /\ parse_ilp_packet(m).request_id = calls[c].request_id
           /\ ReaderReceive(s, m))
              => /\ unmatched' = unmatched
                 /\ calls'[c].st = "resolved"]_vars

\* C17: send_request never displaces a pending slot: a slot stored under an id
\* stays the slot of the same call until a reply takes it, whatever id a later
\* request draws, and the future of the earlier call is resolved by nothing
\* but the reply carrying its id.
C17_NoSlotDisplaced ==
    [][/\ \A id \in DOMAIN pending_outgoing :
            id \in DOMAIN pending_outgoing' =>
                pending_outgoing'[id] = pending_outgoing[id]
       /\ \A c \in CallIds :
            (calls[c].st = "waiting" /\ calls'[c].st = "resolved") =>
                calls'[c].reply_id = calls[c].request_id]_vars

\* C18: the reader and the forwarder of a session end together. From the
\* moment either of them has ended, the session neither reads a message of
\* the inbound stream nor forwards a message of its channel, and the task that
\* holds both eventually ends. Checked under FairSpec.
C18_TasksEndTogether ==
    /\ [](\A s \in SessionIds :
            sessState[s] \in {"reader_ended", "forwarder_ended", "removed", "done"} =>
                /\ ~ENABLED ForwardStep(s)
                /\ ~ENABLED (\E m \in PeerMessages : ReaderReceive(s, m)))
    /\ \A s \in SessionIds :
            (sessState[s] \in {"reader_ended", "forwarder_ended", "removed"})
                ~> (sessState[s] = "done")

\* C18's case: a session that had forwarded a message ended with a message
\* still queued on its channel, and was not replaced: one of its two tasks
\* failed and took the other with it.
C18_Witness ==
    /\ sessState[1] = "done"
    /\ sessState[2] = "unused"
    /\ wire[1] # << >>
    /\ outq[1] # << >>

\* C19: the table of pending requests is one table of the service, keyed by
\* the request id alone: a Fulfill or Reject received on a session resolves
\* the slot stored under its id also when the Prepare of that slot went out
\* over the session of another account.
C19_GlobalCorrelationTable ==
    [][\A s \in SessionIds : \A m \in PeerMessages :
          (IsReply(m) /\ ReaderReceive(s, m)) =>
              LET id == parse_ilp_packet(m).request_id IN
              (/\ id \in DOMAIN pending_outgoing
               /\ calls[pending_outgoing[id]].st = "waiting"
               /\ sessAccount[calls[pending_outgoing[id]].sess] # sessAccount[s])
                  => /\ id \notin DOMAIN pending_outgoing'
                     /\ calls'[pending_outgoing[id]].st = "resolved"
                     /\ calls'[pending_outgoing[id]].reply_sess = s
                     /\ calls'[pending_outgoing[id]].result =
                            [ok |-> parse_ilp_packet(m).packet.type = "Fulfill",
                             packet |-> parse_ilp_packet(m).packet]]_vars

\* C19's case: a request sent over the session of one account was resolved by
\* a reply received on the session of another account.
C19_Witness ==
    \E c \in CallIds :
        /\ calls[c].st = "resolved"
        /\ calls[c].reply_sess # 0
        /\ sessAccount[calls[c].reply_sess] # sessAccount[calls[c].sess]
        /\ calls[c].reply_id = calls[c].request_id
        /\ OnWire(c)

\* C20: the inbound Prepares of all sessions are dispatched one at a time, in
\* the order they arrived. The handler has been called for exactly the
\* Prepares whose calls resolved plus the one in flight, if any; the calls
\* were made and resolved in arrival order; the responses on every session
\* are those of the resolved calls in that order; and while a handler call is
\* in flight no further Prepare can be taken, on any session.
C20_OneHandlerCallAtATime ==
    /\ Len(handled) = Len(dispatchLog) + (IF dispatcher = "handling" THEN 1 ELSE 0)
    /\ (dispatcher = "handling") <=> (current # NoItem)
    /\ dispatcher = "handling" => current = handled[Len(handled)]
    /\ Len(handled) <= Len(arrived)
    /\ \A i \in DOMAIN handled : handled[i] = arrived[i] /\ handled[i].seq = i
    /\ \A i \in DOMAIN dispatchLog : dispatchLog[i].item = handled[i]
    /\ \A s \in SessionIds :
          LET answered == SelectSeq(dispatchLog, LAMBDA e : e.to = s)
          IN  /\ Len(Responses(s)) = Len(answered)
              /\ \A k \in DOMAIN answered :
                    Responses(s)[k].request_id = answered[k].item.request_id
    /\ dispatcher = "handling" => ~ENABLED DispatchTake

\* C20's case: Prepares of two sessions were handled one after the other and
\* each was answered.
C20_Witness ==
    /\ Len(dispatchLog) = 2
    /\ dispatchLog[1].item.sess # dispatchLog[2].item.sess
    /\ dispatchLog[1].to # 0
    /\ dispatchLog[2].to # 0
    /\ dispatchLog[1].to # dispatchLog[2].to

====
